---- MODULE Spec2Model ----
(***************************************************************************)
(* Model of the Python logic of the notebook                               *)
(* "RHD-RHCE - Small variant calling with Giraffe-DeepVariant.ipynb":      *)
(* the translation of a whole-genome region into slice coordinates, the    *)
(* scan of the VCF records of that region for the first record that the    *)
(* first sample carries as 1/1, and the region string built from the       *)
(* recorded position for the subgraph extraction.                          *)
(*                                                                         *)
(* The cells run top to bottom; pc names the next statement to run.        *)
(* Python values that may be a str or an int (var_pos) are tagged records. *)
(***************************************************************************)
EXTENDS Integers, Sequences, FiniteSets, TLC

VARIABLES
    pc,             \* the next statement of the notebook to run
    coord_wg,       \* coord_wg: the region, whole-genome coordinates
    offset,         \* offset: start of the slice on the whole genome
    coord_sub,      \* coord_sub: the region relative to the slice
    region_subset,  \* region_subset: 'chr1:{}-{}' of coord_sub
    vcf_reader,     \* the cyvcf2.VCF object: "unset", "open" or "closed"
    query,          \* the region string handed to vcf_reader(...)
    stream,         \* the records the region iterator will yield, in order
    consumed,       \* how many records the for loop has taken from it
    record,         \* the loop variable: the records bound to it, in order
    printed,        \* the records passed to print(record)
    var_pos,        \* var_pos: '' or the start of the matching record
    message,        \* the line printed after the loop
    region          \* region: 'GRCh38.chr1:{}-{}' of var_pos, for vg find

vars == <<pc, coord_wg, offset, coord_sub, region_subset, vcf_reader, query,
          stream, consumed, record, printed, var_pos, message, region>>

-----------------------------------------------------------------------------
(* Bounds of the model. *)

\* whole-genome positions of the small regions explored: 0..MaxPos
MaxPos == 3
\* offsets of the small regions explored: 0..MaxOffset
MaxOffset == 2
\* longest stream of records the region iterator yields
MaxLen == 3

-----------------------------------------------------------------------------
(* Python values *)

PyStr(s) == [type |-> "str", val |-> s]
PyInt(n) == [type |-> "int", val |-> n]

DigitChar(d) ==
    CASE d = 0 -> "0" [] d = 1 -> "1" [] d = 2 -> "2" [] d = 3 -> "3"
      [] d = 4 -> "4" [] d = 5 -> "5" [] d = 6 -> "6" [] d = 7 -> "7"
      [] d = 8 -> "8" [] d = 9 -> "9"

RECURSIVE NatToStr(_)
NatToStr(n) ==
    IF n < 10 THEN DigitChar(n)
    ELSE NatToStr(n \div 10) \o DigitChar(n % 10)

\* str(int): decimal digits, a leading '-' for a negative number
IntToStr(n) == IF n < 0 THEN "-" \o NatToStr(0 - n) ELSE NatToStr(n)

\* what '{}' in str.format renders for a value: a str as itself, an int in decimal
FormatField(v) == IF v.type = "str" THEN v.val ELSE IntToStr(v.val)

\* '<prefix>:{}-{}'.format(x, y)
FormatRegion(prefix, x, y) ==
    prefix \o ":" \o FormatField(x) \o "-" \o FormatField(y)

-----------------------------------------------------------------------------
(* The notebook's literals *)

NotebookCoordWg == <<25408683, 25408869>>
NotebookOffset == 25053647
VcfContig == "chr1"
GraphPath == "GRCh38.chr1"
EmptyMarker == PyStr("")
MessagePrefix == "There is a variant at position "

-----------------------------------------------------------------------------
(* Coordinate translation *)

\* variants of the subtraction: operands swapped, result clamped at 0,
\* distance instead of difference
Translate_Swapped(pos, off) == off - pos
Translate_Clamped(pos, off) == IF pos - off < 0 THEN 0 ELSE pos - off
Translate_Distance(pos, off) == IF pos >= off THEN pos - off ELSE off - pos

\* pos - offset
Translate(pos, off) == pos - off

\* [pos - offset for pos in coord_wg]
TranslateRegion(wg, off) == [i \in 1..Len(wg) |-> Translate(wg[i], off)]

\* 'chr1:{}-{}'.format(coord_sub[0], coord_sub[1])
RegionSubset(sub) == FormatRegion(VcfContig, PyInt(sub[1]), PyInt(sub[2]))

-----------------------------------------------------------------------------
(* The records of the VCF *)

\* allele indices of a genotype call: 0 the reference, 1 and 2 alternates
Alleles == {0, 1, 2}
\* record.genotypes[0]: the two allele indices of the first sample
\* (the trailing phasing flag of cyvcf2 is never read and is left out)
FirstGenotypes == Alleles \X Alleles
\* the genotypes explored for the samples after the first
OtherGenotypes == {<<0, 0>>, <<1, 1>>}
\* number of samples of the VCF: every record of a file has the same number
SampleCounts == {1, 2}
\* records are explored at the first positions of a region and at these
\* starts (slice coordinates) inside the notebook's region
ScenarioStarts == {355040}
SpanOffsets == {0, 1}

Max(x, y) == IF x >= y THEN x ELSE y

\* starts (0-based) of the records a region query 'chr1:s-e' (1-based,
\* inclusive) can yield: s <= start + 1 <= e
CandidateStarts(sub) ==
    LET base == Max(sub[1], 1)
    IN  {p \in (base - 1)..(sub[2] - 1) :
            (p + 1 - base) \in SpanOffsets \/ p \in ScenarioStarts}

\* the records of a VCF of n samples that start at p
RecordsAt(p, n) ==
    {[start |-> p, genotypes |-> <<g>> \o others] :
        g \in FirstGenotypes, others \in [1..(n - 1) -> OtherGenotypes]}

\* streams of at most len records in position order, starts in cands
RECURSIVE StreamsFrom(_, _, _)
StreamsFrom(cands, n, len) ==
    IF len = 0 THEN {<<>>}
    ELSE {<<>>} \cup
         UNION {UNION {{<<r>> \o s :
                          s \in StreamsFrom({q \in cands : q > p}, n, len - 1)} :
                       r \in RecordsAt(p, n)} :
                p \in cands}

\* what vcf_reader('chr1:s-e') can yield
Streams(sub) ==
    UNION {StreamsFrom(CandidateStarts(sub), n, MaxLen) : n \in SampleCounts}

\* variants of the test: only the first allele is compared; any sample counts
GenotypeTest_FirstAllele(rec) == rec.genotypes[1][1] = 1
GenotypeTest_AnySample(rec) ==
    \E i \in DOMAIN rec.genotypes :
        rec.genotypes[i][1] = 1 /\ rec.genotypes[i][2] = 1

\* record.genotypes[0][0] == 1 and record.genotypes[0][1] == 1
GenotypeTest(rec) == rec.genotypes[1][1] = 1 /\ rec.genotypes[1][2] = 1

-----------------------------------------------------------------------------
(* The inputs explored *)

\* end of the slice chr1:25053647-25685365 on the whole genome
SliceEnd == 25685365
\* a region that runs past the end of the slice
BeyondSliceCoordWg == <<SliceEnd - 65, SliceEnd + 35>>

Inputs ==
    {<<NotebookCoordWg, NotebookOffset>>, <<BeyondSliceCoordWg, NotebookOffset>>}
    \cup {<<<<a, b>>, o>> : a \in 0..MaxPos, b \in 0..MaxPos, o \in 0..MaxOffset}

\* a name no statement has assigned yet
Unbound == [type |-> "unbound", val |-> ""]

Init ==
    /\ pc = "coord"
    /\ \E inp \in Inputs : coord_wg = inp[1] /\ offset = inp[2]
    /\ coord_sub = <<>>
    /\ region_subset = ""
    /\ vcf_reader = "unset"
    /\ query = ""
    /\ stream = <<>>
    /\ consumed = 0
    /\ record = <<>>
    /\ printed = <<>>
    /\ var_pos = Unbound
    /\ message = ""
    /\ region = ""

-----------------------------------------------------------------------------
(* The statements *)

\* coord_sub = [pos - offset for pos in coord_wg]; region_subset = ...
TranslateCell ==
    /\ pc = "coord"
    /\ coord_sub' = TranslateRegion(coord_wg, offset)
    /\ region_subset' = RegionSubset(coord_sub')
    /\ pc' = "open"
    /\ UNCHANGED <<coord_wg, offset, vcf_reader, query, stream, consumed,
                   record, printed, var_pos, message, region>>

\* vcf_reader = cyvcf2.VCF(SMALL_VCF)
OpenReader ==
    /\ pc = "open"
    /\ vcf_reader' = "open"
    /\ pc' = "scan"
    /\ UNCHANGED <<coord_wg, offset, coord_sub, region_subset, query, stream,
                   consumed, record, printed, var_pos, message, region>>

\* var_pos = ''; the for statement calls vcf_reader('chr1:{}-{}'.format(...))
ScanInit ==
    /\ pc = "scan"
    /\ var_pos' = EmptyMarker
    /\ query' = FormatRegion(VcfContig, PyInt(coord_sub[1]), PyInt(coord_sub[2]))
    /\ \E s \in Streams(coord_sub) : stream' = s
    /\ consumed' = 0
    /\ pc' = "loop"
    /\ UNCHANGED <<coord_wg, offset, coord_sub, region_subset, vcf_reader,
                   record, printed, message, region>>

\* variant of the iteration: a record that does not match is not taken
\* off the iterator, so it is handed out again
LoopStep_NoAdvance ==
    /\ pc = "loop"
    /\ consumed < Len(stream)
    /\ LET r == stream[consumed + 1]
       IN  /\ record' = <<r>>
           /\ IF GenotypeTest(r)
              THEN /\ consumed' = consumed + 1
                   /\ printed' = Append(printed, r)
                   /\ var_pos' = PyInt(r.start)
                   /\ pc' = "print"
              ELSE /\ UNCHANGED <<consumed, printed, var_pos>>
                   /\ pc' = "loop"
    /\ UNCHANGED <<coord_wg, offset, coord_sub, region_subset, vcf_reader,
                   query, stream, message, region>>

\* variant of the iteration: the break is missing
LoopStep_NoBreak ==
    /\ pc = "loop"
    /\ consumed < Len(stream)
    /\ LET r == stream[consumed + 1]
       IN  /\ consumed' = consumed + 1
           /\ record' = <<r>>
           /\ IF GenotypeTest(r)
              THEN /\ printed' = Append(printed, r)
                   /\ var_pos' = PyInt(r.start)
              ELSE UNCHANGED <<printed, var_pos>>
           /\ pc' = "loop"
    /\ UNCHANGED <<coord_wg, offset, coord_sub, region_subset, vcf_reader,
                   query, stream, message, region>>

\* one iteration: take the next record, test it, on a match print it,
\* record its start and break
LoopStep ==
    /\ pc = "loop"
    /\ consumed < Len(stream)
    /\ LET r == stream[consumed + 1]
       IN  /\ consumed' = consumed + 1
           /\ record' = <<r>>
           /\ IF GenotypeTest(r)
              THEN /\ printed' = Append(printed, r)
                   /\ var_pos' = PyInt(r.start)
                   /\ pc' = "print"
              ELSE /\ UNCHANGED <<printed, var_pos>>
                   /\ pc' = "loop"
    /\ UNCHANGED <<coord_wg, offset, coord_sub, region_subset, vcf_reader,
                   query, stream, message, region>>

\* variant of the end of the loop: exhaustion leaves position 0 behind
LoopEnd_ZeroPosition ==
    /\ pc = "loop"
    /\ consumed = Len(stream)
    /\ var_pos' = IF var_pos.type = "str" THEN PyInt(0) ELSE var_pos
    /\ pc' = "print"
    /\ UNCHANGED <<coord_wg, offset, coord_sub, region_subset, vcf_reader,
                   query, stream, consumed, record, printed, message, region>>

\* the iterator is exhausted: the for statement ends
LoopEnd ==
    /\ pc = "loop"
    /\ consumed = Len(stream)
    /\ pc' = "print"
    /\ UNCHANGED <<coord_wg, offset, coord_sub, region_subset, vcf_reader,
                   query, stream, consumed, record, printed, var_pos, message,
                   region>>

\* print('There is a variant at position {}'.format(var_pos))
PrintPosition ==
    /\ pc = "print"
    /\ message' = MessagePrefix \o FormatField(var_pos)
    /\ pc' = "region"
    /\ UNCHANGED <<coord_wg, offset, coord_sub, region_subset, vcf_reader,
                   query, stream, consumed, record, printed, var_pos, region>>

\* variant of the statement: the scanned region is formatted again
BuildRegion_ScannedRegion ==
    /\ pc = "region"
    /\ region' = FormatRegion(GraphPath, PyInt(coord_sub[1]), PyInt(coord_sub[2]))
    /\ pc' = "done"
    /\ UNCHANGED <<coord_wg, offset, coord_sub, region_subset, vcf_reader,
                   query, stream, consumed, record, printed, var_pos, message>>

\* region = 'GRCh38.chr1:{}-{}'.format(var_pos, var_pos)
BuildRegion ==
    /\ pc = "region"
    /\ region' = FormatRegion(GraphPath, var_pos, var_pos)
    /\ pc' = "done"
    /\ UNCHANGED <<coord_wg, offset, coord_sub, region_subset, vcf_reader,
                   query, stream, consumed, record, printed, var_pos, message>>

Next ==
    \/ TranslateCell
    \/ OpenReader
    \/ ScanInit
    \/ LoopStep
    \/ LoopEnd
    \/ PrintPosition
    \/ BuildRegion

Spec == Init /\ [][Next]_vars

\* once the for statement has its iterator, the interpreter runs the loop and
\* the statements behind it without suspension: each of them runs when it can
FairSpec ==
    /\ Init
    /\ [][Next]_vars
    /\ WF_vars(LoopStep)
    /\ WF_vars(LoopEnd)
    /\ WF_vars(PrintPosition)
    /\ WF_vars(BuildRegion)

-----------------------------------------------------------------------------
(* Vocabulary of the properties *)

\* the translation cell has run
Translated == pc # "coord"
\* the for statement has ended, by break or by exhaustion
ScanEnded == pc \in {"print", "region", "done"}
\* the scan has recorded a position
Found == var_pos.type = "int"
\* the genotype of the first sample of a record
FirstGenotype(rec) == rec.genotypes[1]
\* the positions in a stream of the records the first sample carries as 1/1
MatchIndices(s) == {k \in 1..Len(s) : FirstGenotype(s[k]) = <<1, 1>>}
\* the first of them, 0 when there is none
FirstMatchIndex(s) ==
    IF MatchIndices(s) = {} THEN 0
    ELSE CHOOSE k \in MatchIndices(s) : \A j \in MatchIndices(s) : k <= j
\* the genotypes of the first sample along a stream
FirstGenotypesOf(s) == [k \in 1..Len(s) |-> FirstGenotype(s[k])]

-----------------------------------------------------------------------------
(* C1 *)

\* C1: the translated region is (a - o, b - o), element by element and in
\* the same order, for every region [a, b] and offset o; the notebook's
\* region [25408683, 25408869] with offset 25053647 gives [355036, 355222]
\* and the query string 'chr1:355036-355222'.
C1_TranslateRegion ==
    Translated =>
        /\ Len(coord_sub) = 2
        /\ coord_sub[1] = coord_wg[1] - offset
        /\ coord_sub[2] = coord_wg[2] - offset
        /\ (coord_wg = <<25408683, 25408869>> /\ offset = 25053647) =>
               /\ coord_sub = <<355036, 355222>>
               /\ region_subset = "chr1:355036-355222"

C1_Witness ==
    /\ Translated
    /\ coord_wg = <<25408683, 25408869>>
    /\ offset = 25053647
    /\ region_subset = "chr1:355036-355222"

-----------------------------------------------------------------------------
(* C2 *)

\* C2: when the scan has ended with a position recorded, the record it
\* stopped on is the earliest record of the stream whose first sample is
\* (1,1): no record before it has a (1,1) first sample, and var_pos is that
\* record's start; and a stream that holds such a record always ends with it.
C2_EarliestMatch ==
    ScanEnded =>
        LET k == FirstMatchIndex(stream)
        IN  /\ Found => k > 0
            /\ k > 0 =>
                  /\ Found
                  /\ record = <<stream[k]>>
                  /\ printed = <<stream[k]>>
                  /\ var_pos = PyInt(stream[k].start)
                  /\ FirstGenotype(stream[k]) = <<1, 1>>
                  /\ \A j \in 1..(k - 1) : FirstGenotype(stream[j]) # <<1, 1>>

\* a match that is not the first record, with a later match behind it
C2_Witness ==
    /\ ScanEnded
    /\ Found
    /\ Len(stream) = 3
    /\ FirstMatchIndex(stream) = 2
    /\ FirstGenotype(stream[1]) = <<1, 0>>
    /\ FirstGenotype(stream[3]) = <<1, 1>>
    /\ var_pos = PyInt(stream[2].start)

-----------------------------------------------------------------------------
(* C3 *)

\* C3: the scan never consumes a record behind the first (1,1) record: in
\* every state at most FirstMatchIndex records are consumed, and in every
\* state after the scan has ended on a match exactly that many, the loop
\* variable still being that record; for [het, homalt, homalt] the scan
\* returns the second record and the count is 2.
C3_ShortCircuit ==
    LET k == FirstMatchIndex(stream)
    IN  /\ k > 0 => consumed <= k
        /\ (ScanEnded /\ k > 0) => consumed = k
        /\ (ScanEnded /\ k > 0) => record = <<stream[k]>>
        /\ (ScanEnded /\ FirstGenotypesOf(stream) = <<<<0, 1>>, <<1, 1>>, <<1, 1>>>>)
               => (consumed = 2 /\ record = <<stream[2]>>)

C3_Witness ==
    /\ pc = "done"
    /\ FirstGenotypesOf(stream) = <<<<0, 1>>, <<1, 1>>, <<1, 1>>>>
    /\ consumed = 2
    /\ record = <<stream[2]>>

-----------------------------------------------------------------------------
(* C4 *)

\* the stream holds no record whose first sample is (1,1)
NoMatch == MatchIndices(stream) = {}

\* C4: when the stream holds no record whose first sample is (1,1), the
\* scan ends with an explicit "not found" result: the position it leaves is
\* not a str or int value that later formats as a position, and the line
\* printed after the loop does not announce a variant.
C4_ExplicitNotFound ==
    /\ (ScanEnded /\ NoMatch) => var_pos.type \notin {"str", "int"}
    /\ (pc \in {"region", "done"} /\ NoMatch) =>
           SubSeq(message, 1, Len(MessagePrefix)) # MessagePrefix

-----------------------------------------------------------------------------
(* C5 *)

\* C5: the translation checks no bounds: whatever the positions and the
\* offset (a negative result, a result past the end of the slice, a start
\* after the end), the translation cell can run, gives the plain
\* differences, and the region string carries them unchanged in decimal.
C5_NoBoundsCheck ==
    /\ pc = "coord" => ENABLED TranslateCell
    /\ Translated =>
          /\ coord_sub = <<coord_wg[1] - offset, coord_wg[2] - offset>>
          /\ region_subset =
                 "chr1:" \o IntToStr(coord_wg[1] - offset) \o "-"
                         \o IntToStr(coord_wg[2] - offset)
          /\ (coord_wg = <<1, 0>> /\ offset = 2) => region_subset = "chr1:-1--2"
          /\ (coord_wg = <<0, 3>> /\ offset = 1) => region_subset = "chr1:-1-2"
          /\ (coord_wg = BeyondSliceCoordWg /\ offset = NotebookOffset) =>
                 /\ coord_sub[2] > SliceEnd - NotebookOffset
                 /\ region_subset = "chr1:631653-631753"

\* a negative start that lies after a negative end
C5_Witness ==
    /\ Translated
    /\ coord_wg = <<1, 0>>
    /\ offset = 2
    /\ coord_sub = <<-1, -2>>
    /\ region_subset = "chr1:-1--2"

-----------------------------------------------------------------------------
(* C6 *)

\* C6: the reader is opened right before the scan and closed right after
\* it on every exit path: it is open while the loop runs, and closed in
\* every state after the scan has ended.
C6_ReaderScoped ==
    /\ pc = "loop" => vcf_reader = "open"
    /\ ScanEnded => vcf_reader = "closed"

-----------------------------------------------------------------------------
(* C7 *)

\* a region string 'contig:range' read back: the place of its first colon,
\* the contig before it and the range after it
ColonIndex(str) ==
    CHOOSE k \in 1..Len(str) :
        /\ SubSeq(str, k, k) = ":"
        /\ \A j \in 1..(k - 1) : SubSeq(str, j, j) # ":"
ContigOf(str) == SubSeq(str, 1, ColonIndex(str) - 1)
RangeOf(str) == SubSeq(str, ColonIndex(str) + 1, Len(str))
\* 'p-p' for the start p of the first matching record of a stream
MatchRange(s) ==
    IntToStr(s[FirstMatchIndex(s)].start) \o "-"
        \o IntToStr(s[FirstMatchIndex(s)].start)

\* C7 as stated: after a match at position p the extraction region is
\* '<contig>:p-p', p the start of the record the scan returned (':355040-355040'
\* for a single (1,1) record at 355040), and its contig is the contig of the
\* region that was scanned.
C7_SameContig ==
    (pc = "done" /\ FirstMatchIndex(stream) > 0) =>
        /\ RangeOf(region) = MatchRange(stream)
        /\ ContigOf(region) = ContigOf(query)

\* C7 as amended: after a match at position p the extraction region is
\* '<path>:p-p', p the start of the record the scan returned (':355040-355040'
\* for a single (1,1) record at 355040), and its path is the reference path
\* 'GRCh38.chr1' of the graph: the contig of the scanned region, 'chr1',
\* behind the prefix 'GRCh38.'.
C7_GraphPath ==
    (pc = "done" /\ FirstMatchIndex(stream) > 0) =>
        /\ RangeOf(region) = MatchRange(stream)
        /\ ContigOf(region) = "GRCh38." \o ContigOf(query)
        /\ ContigOf(region) = "GRCh38.chr1"
        /\ (Len(stream) = 1 /\ stream[1].start = 355040) =>
               region = "GRCh38.chr1:355040-355040"

C7_Witness ==
    /\ pc = "done"
    /\ Len(stream) = 1
    /\ stream[1].start = 355040
    /\ FirstGenotype(stream[1]) = <<1, 1>>
    /\ query = "chr1:355036-355222"
    /\ region = "GRCh38.chr1:355040-355040"

-----------------------------------------------------------------------------
(* C8 *)

\* the positions the translation is compared on, for the offset of the state
ProbePositions == (0..MaxPos) \cup {coord_wg[1], coord_wg[2]}

\* C8: for the offset o of the run, p -> p - o is injective and keeps the
\* order on the positions, so the translated region has start <= end
\* whenever the whole-genome region has, and distinct ends stay distinct.
C8_InjectiveMonotone ==
    /\ \A p \in ProbePositions : \A q \in ProbePositions :
          /\ Translate(p, offset) = Translate(q, offset) => p = q
          /\ p <= q => Translate(p, offset) <= Translate(q, offset)
    /\ (Translated /\ coord_wg[1] <= coord_wg[2]) => coord_sub[1] <= coord_sub[2]
    /\ (Translated /\ coord_wg[1] # coord_wg[2]) => coord_sub[1] # coord_sub[2]

\* an ordered region whose start lies before the offset
C8_Witness ==
    /\ Translated
    /\ coord_wg[1] < coord_wg[2]
    /\ coord_wg[1] < offset
    /\ coord_sub[1] < 0
    /\ coord_sub[1] < coord_sub[2]

-----------------------------------------------------------------------------
(* C9 *)

\* the records of a stream whose first sample carries the same alternate
\* allele twice, whichever alternate that is
HomAltIndices(s) ==
    {k \in 1..Len(s) :
        FirstGenotype(s[k])[1] = FirstGenotype(s[k])[2] /\ FirstGenotype(s[k])[1] >= 1}

\* C9: the scan stops on the first record that is homozygous for an
\* alternate allele, whichever alternate index: it never consumes a record
\* behind such a record, and once it has ended on a stream that holds one,
\* it has recorded the start of the first one.
C9_AnyHomAlt ==
    /\ \A k \in HomAltIndices(stream) : consumed <= k
    /\ (ScanEnded /\ HomAltIndices(stream) # {}) =>
          /\ Found
          /\ \E k \in HomAltIndices(stream) : var_pos = PyInt(stream[k].start)

-----------------------------------------------------------------------------
(* C10 *)

\* C10: the scan decides on the first sample alone: while the loop runs
\* every record consumed so far has a first sample that is not (1,1),
\* whatever its other samples; a returned record has a (1,1) first sample;
\* a consumed record with a (1,1) first sample is the last one consumed and
\* the one returned, whatever its other samples; a scan that ends with
\* nothing found has passed over the whole stream.
C10_FirstSampleOnly ==
    /\ pc = "loop" =>
           \A j \in 1..consumed : FirstGenotype(stream[j]) # <<1, 1>>
    /\ (ScanEnded /\ Found) => FirstGenotype(record[1]) = <<1, 1>>
    /\ ScanEnded =>
           \A j \in 1..consumed :
               FirstGenotype(stream[j]) = <<1, 1>> =>
                   /\ j = consumed
                   /\ Found
                   /\ record = <<stream[j]>>
                   /\ var_pos = PyInt(stream[j].start)
    /\ (ScanEnded /\ ~Found) => consumed = Len(stream)

\* a record passed over although its second sample is (1,1), then a record
\* returned although its second sample is (0,0)
C10_Witness ==
    /\ ScanEnded
    /\ Len(stream) = 2
    /\ stream[1].genotypes = <<<<0, 1>>, <<1, 1>>>>
    /\ stream[2].genotypes = <<<<1, 1>>, <<0, 0>>>>
    /\ consumed = 2
    /\ var_pos = PyInt(stream[2].start)

-----------------------------------------------------------------------------
(* C11 *)

\* C11: when the scan exhausts its stream with no match, nothing stops the
\* run: var_pos still holds the empty string it was given before the loop,
\* the print and the region statements can run, the line printed names an
\* empty position, and the extraction region is built from the empty
\* string, with an empty start and an empty end: 'GRCh38.chr1:-'.
C11_EmptyMarkerPropagates ==
    /\ (ScanEnded /\ NoMatch) =>
          /\ consumed = Len(stream)
          /\ var_pos = [type |-> "str", val |-> ""]
    /\ pc = "print" => ENABLED PrintPosition
    /\ pc = "region" => ENABLED BuildRegion
    /\ (pc \in {"region", "done"} /\ NoMatch) =>
           message = "There is a variant at position "
    /\ (pc = "done" /\ NoMatch) =>
          /\ region = "GRCh38.chr1:-"
          /\ RangeOf(region) = "-"

\* a stream of three records, none of them matching, scanned to its end
C11_Witness ==
    /\ pc = "done"
    /\ Len(stream) = 3
    /\ NoMatch
    /\ consumed = 3
    /\ region = "GRCh38.chr1:-"

-----------------------------------------------------------------------------
(* C12 *)

\* C12: for every finite stream a scan that has started finishes; it never consumes more
\* records than the stream holds; each step consumes nothing or exactly the
\* next record of the unchanged stream, which becomes the loop variable, so
\* records are taken in stream order and each at most once; while the loop
\* runs var_pos is the empty string; var_pos changes inside the loop only to
\* the start of the (1,1) record just consumed, and once it holds a
\* position it never changes again.
C12_LinearScan ==
    /\ [](consumed <= Len(stream))
    /\ [](pc = "loop" => (var_pos.type = "str" /\ var_pos.val = ""))
    /\ [][/\ \/ consumed' = consumed
             \/ /\ pc = "loop"
                /\ consumed' = consumed + 1
                /\ record' = <<stream[consumed + 1]>>
          /\ pc = "loop" => stream' = stream
          /\ var_pos.type = "int" => var_pos' = var_pos
          /\ (pc = "loop" /\ var_pos'.type = "int") =>
                /\ FirstGenotype(stream[consumed + 1]) = <<1, 1>>
                /\ var_pos'.val = stream[consumed + 1].start
                /\ pc' = "print"]_vars
    /\ (pc = "loop" ~> ScanEnded)

\* a stream of three records consumed one by one up to a match on the last
C12_Witness ==
    /\ pc = "done"
    /\ Len(stream) = 3
    /\ FirstMatchIndex(stream) = 3
    /\ consumed = 3
    /\ var_pos = PyInt(stream[3].start)

====
